---- MODULE Spec2Model ----
(***************************************************************************)
(* State-machine model of symmeplot's plot-object tree (PlotBase) and of   *)
(* the matplotlib scene (Scene3D).                                         *)
(*                                                                         *)
(* A plot object is a node with a list of children.  The property setters  *)
(* of PlotBase are modelled as operators that return the fields after the  *)
(* call together with the exception the call ended with ("none" when it    *)
(* returned).  Assignments made before an exception is raised persist, as  *)
(* they do in Python.                                                      *)
(***************************************************************************)
EXTENDS Integers, Sequences, FiniteSets, TLC

VARIABLES
    count,           \* number of PlotBase objects constructed so far (ids 1..count)
    children,        \* PlotBase._children, per object
    inertial_frame,  \* PlotBase._inertial_frame, per object (Unset: no attribute)
    zero_point,      \* PlotBase._zero_point, per object (Unset: no attribute)
    visible,         \* PlotBase._visible, per object
    exprs,           \* result of _get_expressions_to_evaluate_self(), per object
    values,          \* PlotBase._values, per object
    artists,         \* PlotBase._artists, per object
    scene_children,  \* Scene3D._children
    annot_visible,   \* Scene3D.annot.get_visible()
    annot_text,      \* object whose str() is the text of Scene3D.annot (0: "")
    annot_location,  \* Scene3D._annot_location
    anim,            \* the FuncAnimation returned by Scene3D.animate
    calls,           \* frames the per-frame callback has been invoked with
    drawn,           \* the values each object's primitives were last updated from
    on_axes,         \* per object: primitives added to the axes, and their state then
    handed,          \* the artists the per-frame callback returned, with their state
    steps,           \* the calls the last plot() / per-frame callback made, in order
    limits,          \* x, y, z limits of the axes, in twentieths
    last             \* the call made by the last step and how it ended

vars == <<count, children, inertial_frame, zero_point, visible, exprs, values,
          artists, scene_children, annot_visible, annot_text, annot_location,
          anim, calls, drawn, on_axes, handed, steps, limits, last>>

treeVars == <<count, children, inertial_frame, zero_point, visible, exprs,
              values, artists>>
sceneVars == <<scene_children, annot_visible, annot_text, annot_location>>
animVars == <<anim, calls>>
plotVars == <<drawn, on_axes, handed, steps, limits>>

(***************************************************************************)
(* Bounds                                                                  *)
(***************************************************************************)
MaxNodes == 3      \* plot objects constructed in one behaviour
MaxOwn == 1        \* expressions a single plot object needs for itself
MaxFrames == 3     \* largest integer frame count / longest frame iterable

Nodes == 1..MaxNodes

(***************************************************************************)
(* Values of the sympy types.  Frames are ReferenceFrame objects, Points   *)
(* are Point objects; NotAFrame / NotAPoint stand for any object of        *)
(* another type.  Point and ReferenceFrame compare by identity.            *)
(***************************************************************************)
Unset == "unset"
Frames == {"N", "A"}
NotAFrame == "not-a-frame"
Points == {"O", "P"}
NotAPoint == "not-a-point"

NoError == "none"

Made == 1..count

Call(op, node, arg, flag, hit, err) ==
    [op |-> op, node |-> node, arg |-> arg, flag |-> flag, hit |-> hit, err |-> err]

(***************************************************************************)
(* Tree helpers                                                            *)
(***************************************************************************)
Range(s) == {s[i] : i \in 1..Len(s)}

\* the children property
Kids(n) == Range(children[n])

RECURSIVE DescUpTo(_, _)
DescUpTo(S, k) ==
    IF k = 0 THEN S
    ELSE DescUpTo(S \cup UNION {Kids(m) : m \in S}, k - 1)

\* n and everything below it
Subtree(n) == DescUpTo({n}, MaxNodes)

\* children, grandchildren and deeper
Descendants(n) == Subtree(n) \ {n}

IsRoot(n) == \A m \in Made : n \notin Kids(m)

Depth2(n) == \E c \in Kids(n) : Kids(c) # {}


(***************************************************************************)
(* PlotBase.inertial_frame setter.  fr is the _inertial_frame field of all *)
(* objects; the result holds the field after the call and the exception.   *)
(***************************************************************************)
RECURSIVE inertial_frame_set(_, _, _)
RECURSIVE inertial_frame_cascade(_, _, _)

inertial_frame_cascade(fr, kids, new) ==
    IF kids = <<>> THEN [st |-> fr, err |-> NoError]
    ELSE LET r == inertial_frame_set(fr, Head(kids), new)
         IN IF r.err # NoError THEN r
            ELSE inertial_frame_cascade(r.st, Tail(kids), new)

\* faulty variant: the hasattr test is missing, the frame can be changed
inertial_frame_set_rebind(fr, n, new) ==
    IF new \notin Frames THEN [st |-> fr, err |-> "TypeError"]
    ELSE LET r == inertial_frame_cascade(fr, children[n], new)
         IN IF r.err # NoError THEN r
            ELSE [st |-> [r.st EXCEPT ![n] = new], err |-> NoError]

inertial_frame_set(fr, n, new) ==
    IF new \notin Frames THEN [st |-> fr, err |-> "TypeError"]
    ELSE IF fr[n] # Unset THEN [st |-> fr, err |-> "NotImplementedError"]
    ELSE LET r == inertial_frame_cascade(fr, children[n], new)
         IN IF r.err # NoError THEN r
            ELSE [st |-> [r.st EXCEPT ![n] = new], err |-> NoError]

(***************************************************************************)
(* PlotBase.zero_point setter.                                             *)
(***************************************************************************)
RECURSIVE zero_point_set(_, _, _)
RECURSIVE zero_point_cascade(_, _, _)

zero_point_cascade(zp, kids, new) ==
    IF kids = <<>> THEN [st |-> zp, err |-> NoError]
    ELSE LET r == zero_point_set(zp, Head(kids), new)
         IN IF r.err # NoError THEN r
            ELSE zero_point_cascade(r.st, Tail(kids), new)

\* faulty variant: the "cannot be changed" test is missing
zero_point_set_rebind(zp, n, new) ==
    IF new \notin Points THEN [st |-> zp, err |-> "TypeError"]
    ELSE LET r == zero_point_cascade(zp, children[n], new)
         IN IF r.err # NoError THEN r
            ELSE [st |-> [r.st EXCEPT ![n] = new], err |-> NoError]

zero_point_set(zp, n, new) ==
    IF zp[n] # Unset /\ new # zp[n] THEN [st |-> zp, err |-> "NotImplementedError"]
    ELSE IF new \notin Points THEN [st |-> zp, err |-> "TypeError"]
    ELSE LET r == zero_point_cascade(zp, children[n], new)
         IN IF r.err # NoError THEN r
            ELSE [st |-> [r.st EXCEPT ![n] = new], err |-> NoError]

(***************************************************************************)
(* PlotBase.visible setter: writes _visible of each child, then of self.   *)
(***************************************************************************)
visible_set(vis, n, is_visible) ==
    [m \in Nodes |-> IF m = n \/ m \in Kids(n) THEN is_visible ELSE vis[m]]

(***************************************************************************)
(* Expressions and values.  An expression is <<object, index>>; evaluating *)
(* it at the parameter value x gives <<object, index, x>>.  A nested list  *)
(* [own] + [child lists] is the record [own |-> own, kids |-> child lists].*)
(***************************************************************************)
Params == {0}

OwnExprs(n, k) == [i \in 1..k |-> <<n, i>>]

\* expr.evalf(...) / the lambdified expression
Eval(e, x) == <<e[1], e[2], x>>

\* PlotBase.get_expressions_to_evaluate
RECURSIVE get_expressions_to_evaluate(_)
get_expressions_to_evaluate(n) ==
    [own |-> exprs[n],
     kids |-> [i \in 1..Len(children[n]) |->
                  get_expressions_to_evaluate(children[n][i])]]

\* PlotBase.values (getter), read from the field map vals
RECURSIVE values_get(_, _)
values_get(vals, n) ==
    [own |-> vals[n],
     kids |-> [i \in 1..Len(children[n]) |-> values_get(vals, children[n][i])]]

Min(a, b) == IF a < b THEN a ELSE b

\* PlotBase.values (setter): self._values = values[0], then the children
\* zipped with values[1:]; zip stops at the shorter of the two.
RECURSIVE values_set(_, _, _)
RECURSIVE values_zip(_, _, _, _)

values_zip(vals, kids, subtrees, i) ==
    IF i > Min(Len(kids), Len(subtrees)) THEN vals
    ELSE values_zip(values_set(vals, kids[i], subtrees[i]), kids, subtrees, i + 1)

\* faulty variant: the children are not assigned
values_set_own_only(vals, n, tree) == [vals EXCEPT ![n] = tree.own]

values_set(vals, n, tree) ==
    values_zip([vals EXCEPT ![n] = tree.own], children[n], tree.kids, 1)

\* the nested shape of a nested list: lengths in place of the own lists
RECURSIVE Shape(_)
Shape(tree) ==
    [own |-> Len(tree.own),
     kids |-> [i \in 1..Len(tree.kids) |-> Shape(tree.kids[i])]]


(***************************************************************************)
(* Values handed to the values setter.  The evaluator returns the nested   *)
(* list of the evaluated expressions ("exact"); the other kinds are that   *)
(* list with one defect at object m: its first subtree missing, a surplus  *)
(* subtree appended, its own list one element short or one element long.   *)
(***************************************************************************)
Kinds == {"exact", "drop_kid", "extra_kid", "short_own", "long_own"}

EvalOwn(n, x) == [i \in 1..Len(exprs[n]) |-> Eval(exprs[n][i], x)]

RECURSIVE ValuesTree(_, _, _, _)
ValuesTree(n, x, kind, m) ==
    LET own == EvalOwn(n, x)
        kidsT == [i \in 1..Len(children[n]) |->
                     ValuesTree(children[n][i], x, kind, m)]
        hit == (n = m)
    IN [own |-> IF hit /\ kind = "short_own" THEN Tail(own)
                ELSE IF hit /\ kind = "long_own" THEN Append(own, <<0, 0, x>>)
                ELSE own,
        kids |-> IF hit /\ kind = "drop_kid" THEN Tail(kidsT)
                 ELSE IF hit /\ kind = "extra_kid"
                      THEN Append(kidsT, [own |-> <<>>, kids |-> <<>>])
                 ELSE kidsT]

Applicable(kind, m) ==
    /\ kind = "drop_kid" => children[m] # <<>>
    /\ kind = "short_own" => exprs[m] # <<>>

\* PlotBase.evalf: own values from the own expressions, then the children
evalf(vals, n, x) ==
    [m \in Nodes |-> IF m \in Subtree(n) THEN EvalOwn(m, x) ELSE vals[m]]

(***************************************************************************)
(* Artists.  An entry of _artists is an artist (named by its object) or    *)
(* None.                                                                   *)
(***************************************************************************)
NoArtist == 0
ArtistKinds == {"empty", "None", "artist"}

OwnArtists(n, a) ==
    IF a = "artist" THEN <<n>> ELSE IF a = "None" THEN <<NoArtist>> ELSE <<>>

\* PlotBase.artists: own artists, then those of the children, recursively
RECURSIVE artists_of(_)
RECURSIVE artists_of_kids(_, _)
artists_of_kids(kids, i) ==
    IF i > Len(kids) THEN <<>>
    ELSE artists_of(kids[i]) \o artists_of_kids(kids, i + 1)

artists_of(n) == artists[n] \o artists_of_kids(children[n], 1)

(***************************************************************************)
(* The state after Scene3D(inertial_frame, zero_point): the scene holds    *)
(* one child, the plot object of the inertial frame; the annotation is     *)
(* hidden and placed at the object.                                        *)
(***************************************************************************)
SceneFrame == "N"
ScenePoint == "O"
InertialNode == 1

NoAnim == [kind |-> "none", n |-> 0, frames |-> <<>>, pos |-> 0]

\* limits of a new 3d axes: (0, 1) on each axis
DefaultLimits == [i \in 1..3 |-> [lo |-> 0, hi |-> 20]]

NotPlotted == [attached |-> FALSE, data |-> <<>>]

\* a: what the plot object of the inertial frame holds in _artists
InitScene(a) ==
    /\ count = 1
    /\ children = [n \in Nodes |-> <<>>]
    /\ inertial_frame = [n \in Nodes |-> IF n = InertialNode THEN SceneFrame ELSE Unset]
    /\ zero_point = [n \in Nodes |-> IF n = InertialNode THEN ScenePoint ELSE Unset]
    /\ visible = [n \in Nodes |-> n = InertialNode]
    /\ exprs = [n \in Nodes |-> IF n = InertialNode THEN OwnExprs(n, 1) ELSE <<>>]
    /\ values = [n \in Nodes |-> <<>>]
    /\ artists = [n \in Nodes |-> OwnArtists(n, IF n = InertialNode THEN a ELSE "empty")]
    /\ scene_children = <<InertialNode>>
    /\ annot_visible = FALSE
    /\ annot_text = 0
    /\ annot_location = "object"
    /\ anim = NoAnim
    /\ calls = <<>>
    /\ drawn = [n \in Nodes |-> <<>>]
    /\ on_axes = [n \in Nodes |-> NotPlotted]
    /\ handed = <<>>
    /\ steps = <<>>
    /\ limits = DefaultLimits
    /\ last = Call("init", 0, "", FALSE, {}, NoError)

Init == InitScene("artist")

(***************************************************************************)
(* PlotBase.__init__ for the new object n, when it raises nothing.         *)
(***************************************************************************)
PlotBase_init(n, f, p, k, a) ==
    /\ count' = n
    /\ inertial_frame' = inertial_frame_set(inertial_frame, n, f).st
    /\ zero_point' = zero_point_set(zero_point, n, p).st
    /\ visible' = visible_set(visible, n, TRUE)
    /\ values' = [values EXCEPT ![n] = <<>>]
    /\ exprs' = [exprs EXCEPT ![n] = OwnExprs(n, k)]
    /\ artists' = [artists EXCEPT ![n] = OwnArtists(n, a)]

InitError(n, f, p) ==
    LET r1 == inertial_frame_set(inertial_frame, n, f)
        r2 == zero_point_set(zero_point, n, p)
    IN IF r1.err # NoError THEN r1.err ELSE r2.err

\* a plot object constructed on its own: a new root
Construct(f, p, k, a) ==
    /\ count < MaxNodes
    /\ LET n == count + 1
           err == InitError(n, f, p)
       IN /\ IF err = NoError
             THEN PlotBase_init(n, f, p, k, a)
             ELSE UNCHANGED <<count, inertial_frame, zero_point, visible, values,
                              exprs, artists>>
          /\ last' = Call("construct", n, "", FALSE, {}, err)
    /\ UNCHANGED <<children, sceneVars, animVars>>
    /\ UNCHANGED plotVars

\* a composite plot object constructs a child with its own inertial frame
\* and zero point and appends it to _children
AddChild(parent, k, a) ==
    /\ count < MaxNodes
    /\ parent \in Made
    /\ PlotBase_init(count + 1, inertial_frame[parent], zero_point[parent], k, a)
    /\ children' = [children EXCEPT ![parent] = Append(@, count + 1)]
    /\ last' = Call("add_child", parent, "", FALSE, {}, NoError)
    /\ UNCHANGED <<sceneVars, animVars>>
    /\ UNCHANGED plotVars

SetInertialFrame(n, f) ==
    /\ n \in Made
    /\ LET r == inertial_frame_set(inertial_frame, n, f)
       IN /\ inertial_frame' = r.st
          /\ last' = Call("inertial_frame", n, f, FALSE, {}, r.err)
    /\ UNCHANGED <<count, children, zero_point, visible, exprs, values, artists,
                   sceneVars, animVars>>
    /\ UNCHANGED plotVars

SetZeroPoint(n, p) ==
    /\ n \in Made
    /\ LET r == zero_point_set(zero_point, n, p)
       IN /\ zero_point' = r.st
          /\ last' = Call("zero_point", n, p, FALSE, {}, r.err)
    /\ UNCHANGED <<count, children, inertial_frame, visible, exprs, values, artists,
                   sceneVars, animVars>>
    /\ UNCHANGED plotVars

SetVisible(n, b) ==
    /\ n \in Made
    /\ visible' = visible_set(visible, n, b)
    /\ last' = Call("visible", n, "", b, {}, NoError)
    /\ UNCHANGED <<count, children, inertial_frame, zero_point, exprs, values,
                   artists, sceneVars, animVars>>
    /\ UNCHANGED plotVars

SetValues(n, x, kind, m) ==
    /\ n \in Made
    /\ m \in Subtree(n)
    /\ Applicable(kind, m)
    /\ LET tree == ValuesTree(n, x, kind, m)
       IN /\ values' = values_set(values, n, tree)
          /\ last' = Call("values", n, kind,
                          Shape(tree) = Shape(get_expressions_to_evaluate(n)),
                          {}, NoError)
    /\ UNCHANGED <<count, children, inertial_frame, zero_point, visible, exprs,
                   artists, sceneVars, animVars>>
    /\ UNCHANGED plotVars

Evalf(n, x) ==
    /\ n \in Made
    /\ values' = evalf(values, n, x)
    /\ last' = Call("evalf", n, "", FALSE, {}, NoError)
    /\ UNCHANGED <<count, children, inertial_frame, zero_point, visible, exprs,
                   artists, sceneVars, animVars>>
    /\ UNCHANGED plotVars

(***************************************************************************)
(* The plot-object tree under its property setters.                        *)
(***************************************************************************)
NextTree ==
    \/ \E f \in Frames \cup {NotAFrame}, p \in Points \cup {NotAPoint} :
          Construct(f, p, 0, "empty")
    \/ \E n \in Nodes : AddChild(n, 0, "empty")
    \/ \E n \in Nodes, f \in Frames \cup {NotAFrame} : SetInertialFrame(n, f)
    \/ \E n \in Nodes, p \in Points \cup {NotAPoint} : SetZeroPoint(n, p)
    \/ \E n \in Nodes, b \in BOOLEAN : SetVisible(n, b)

SpecTree == Init /\ [][NextTree]_vars

(***************************************************************************)
(* The plot-object tree under evaluation and value distribution.           *)
(***************************************************************************)
NextValues ==
    \/ \E n \in Nodes, k \in 0..MaxOwn : AddChild(n, k, "empty")
    \/ \E n \in Nodes, x \in Params, kind \in Kinds, m \in Nodes :
          SetValues(n, x, kind, m)
    \/ \E n \in Nodes, x \in Params : Evalf(n, x)

SpecValues == Init /\ [][NextValues]_vars


(***************************************************************************)
(* Scene3D                                                                 *)
(***************************************************************************)
\* SceneBase.add_*: a plot object of the scene's inertial frame and zero
\* point is constructed and appended to the scene's children
AddPlotObject(a) ==
    /\ count < MaxNodes
    /\ PlotBase_init(count + 1, SceneFrame, ScenePoint, 0, a)
    /\ scene_children' = Append(scene_children, count + 1)
    /\ last' = Call("add", count + 1, "", FALSE, {}, NoError)
    /\ UNCHANGED <<children, annot_visible, annot_text, annot_location, animVars>>
    /\ UNCHANGED plotVars

\* faulty variant: "mouse" is accepted as well
annot_location_accepts_mouse(new_annot_location) ==
    new_annot_location \in {"object", "mouse"}

\* Scene3D.annot_location setter: the values accepted
annot_location_accepts(new_annot_location) == new_annot_location = "object"

LocationInputs == {"object", "mouse", "cursor"}

SetAnnotLocation(v) ==
    /\ IF annot_location_accepts(v)
       THEN /\ annot_location' = v
            /\ last' = Call("annot_location", 0, v, FALSE, {}, NoError)
       ELSE /\ annot_location' = annot_location
            /\ last' = Call("annot_location", 0, v, FALSE, {}, "NotImplementedError")
    /\ UNCHANGED <<treeVars, scene_children, annot_visible, annot_text, animVars>>
    /\ UNCHANGED plotVars

\* PlotBase.contains; hit is the set of artists a with a.contains(event)[0]
contains(n, hit) ==
    \E i \in 1..Len(artists_of(n)) :
        artists_of(n)[i] # NoArtist /\ artists_of(n)[i] \in hit

\* Scene3D._get_selected_object; 0 stands for None
RECURSIVE get_selected_object(_, _)

\* faulty variant: the last child that contains the event is returned
get_selected_object_last(ch, hit) ==
    IF ch = <<>> THEN 0
    ELSE IF contains(ch[Len(ch)], hit) THEN ch[Len(ch)]
    ELSE get_selected_object(SubSeq(ch, 1, Len(ch) - 1), hit)

get_selected_object(ch, hit) ==
    IF ch = <<>> THEN 0
    ELSE IF contains(Head(ch), hit) THEN Head(ch)
    ELSE get_selected_object(Tail(ch), hit)

\* Scene3D._hover for a motion_notify_event; inaxes: event.inaxes == self._ax.
\* The artists are drawn inside the axes: a pointer outside them is on none.
Hover(inaxes, hit) ==
    /\ ~inaxes => hit = {}
    /\ LET plot_object == get_selected_object(scene_children, hit)
       IN IF inaxes /\ plot_object # 0
          THEN annot_text' = plot_object /\ annot_visible' = TRUE
          ELSE IF inaxes /\ annot_visible
          THEN annot_text' = annot_text /\ annot_visible' = FALSE
          ELSE UNCHANGED <<annot_text, annot_visible>>
    /\ last' = Call("hover", 0, "", inaxes, hit, NoError)
    /\ UNCHANGED <<treeVars, scene_children, annot_location, animVars>>
    /\ UNCHANGED plotVars

\* plot_object.set_visible(is_visible): the object and everything below it
set_visible(vis, n, is_visible) ==
    [m \in Nodes |-> IF m \in Subtree(n) THEN is_visible ELSE vis[m]]

\* faulty variant: the inertial frame is left out of the loop
clear_targets_added(ch) == Tail(ch)

\* Scene3D.clear: the plot objects the loop visits
clear_targets(ch) == ch

\* faulty variant: the last child is kept
clear_keep_last(ch) == <<ch[Len(ch)]>>

\* Scene3D.clear: the children kept
clear_keep(ch) == <<ch[1]>>

RECURSIVE hide_all(_, _)
hide_all(vis, targets) ==
    IF targets = <<>> THEN vis
    ELSE hide_all(set_visible(vis, Head(targets), FALSE), Tail(targets))

\* last.node: number of added top-level objects before the call,
\* last.hit: the top-level objects before the call
Clear ==
    /\ visible' = hide_all(visible, clear_targets(scene_children))
    /\ scene_children' = clear_keep(scene_children)
    /\ last' = Call("clear", Len(scene_children) - 1, "", FALSE,
                    Range(scene_children), NoError)
    /\ UNCHANGED <<count, children, inertial_frame, zero_point, exprs, values,
                   artists, annot_visible, annot_text, annot_location, animVars>>
    /\ UNCHANGED plotVars

NextScene ==
    \/ \E a \in ArtistKinds : AddPlotObject(a)
    \/ \E n \in Nodes, a \in ArtistKinds : AddChild(n, 0, a)
    \/ \E v \in LocationInputs : SetAnnotLocation(v)
    \/ \E inaxes \in BOOLEAN, hit \in SUBSET Nodes : Hover(inaxes, hit)
    \/ Clear

SpecScene == Init /\ [][NextScene]_vars

(***************************************************************************)
(* Scene3D.animate.  The FuncAnimation holds the frame source and the      *)
(* number of frames it has consumed; each tick of its timer takes the next *)
(* frame and invokes the per-frame callback with it.                       *)
(***************************************************************************)
FrameValues == {0, 1, 2}

RECURSIVE SeqsUpTo(_, _)
SeqsUpTo(S, k) ==
    IF k = 0 THEN {<<>>}
    ELSE LET shorter == SeqsUpTo(S, k - 1)
         IN shorter \cup {Append(q, v) : q \in shorter, v \in S}

\* faulty variant: the count starts at one
range_from_one(frames) == [i \in 1..frames |-> i]

\* range(frames)
range(frames) == [i \in 1..frames |-> i - 1]

AnimDone == anim.pos = Len(anim.frames)

\* animate(get_args, frames) with frames an int
AnimateInt(frames) ==
    /\ AnimDone
    /\ anim' = [kind |-> "int", n |-> frames, frames |-> range(frames), pos |-> 0]
    /\ calls' = <<>>
    /\ last' = Call("animate", 0, "int", FALSE, {}, NoError)
    /\ UNCHANGED <<treeVars, sceneVars>>
    /\ UNCHANGED plotVars

\* animate(get_args, frames) with frames an iterable
AnimateIterable(frames) ==
    /\ AnimDone
    /\ anim' = [kind |-> "iterable", n |-> 0, frames |-> frames, pos |-> 0]
    /\ calls' = <<>>
    /\ last' = Call("animate", 0, "iterable", FALSE, {}, NoError)
    /\ UNCHANGED <<treeVars, sceneVars>>
    /\ UNCHANGED plotVars

\* SceneBase.evaluate_system(*args): the values of the evaluated expressions
\* are distributed to the scene's children
RECURSIVE evaluate_system(_, _, _)
evaluate_system(vals, ch, x) ==
    IF ch = <<>> THEN vals
    ELSE evaluate_system(values_set(vals, Head(ch), ValuesTree(Head(ch), x, "exact", 0)),
                         Tail(ch), x)

(***************************************************************************)
(* Updating and plotting.  update() sets the state of an object's          *)
(* primitives from its current values; plot(ax) adds the primitives to the *)
(* axes in the state they have then.                                       *)
(***************************************************************************)
\* PlotBase.update: _update_self(), then the children
update(dr, vals, n) ==
    [m \in Nodes |-> IF m \in Subtree(n) THEN vals[m] ELSE dr[m]]

\* SceneBase.update: update() of every child of the scene
RECURSIVE scene_update(_, _, _)
scene_update(dr, vals, ch) ==
    IF ch = <<>> THEN dr
    ELSE scene_update(update(dr, vals, Head(ch)), vals, Tail(ch))

\* PlotBase.plot: _plot_self(ax), then the children
plot(on, dr, n) ==
    [m \in Nodes |-> IF m \in Subtree(n)
                     THEN [attached |-> TRUE, data |-> dr[m]]
                     ELSE on[m]]

\* Scene3D.plot: for plot_object in self._children: plot_object.plot(self.axes)
RECURSIVE plot_children(_, _, _)
plot_children(on, dr, ch) ==
    IF ch = <<>> THEN on
    ELSE plot_children(plot(on, dr, Head(ch)), dr, Tail(ch))

\* SceneBase.artists: the artists of the scene's children
scene_artists == artists_of_kids(scene_children, 1)

\* the artists of the scene, each with the state of its primitive
ArtistStates(dr) ==
    [i \in 1..Len(scene_artists) |->
        <<scene_artists[i],
          IF scene_artists[i] = NoArtist THEN <<>> ELSE dr[scene_artists[i]]>>]

\* the objects in the scene
SceneNodes == UNION {Subtree(scene_children[i]) : i \in 1..Len(scene_children)}

\* faulty variant: the primitives are updated before the system is evaluated
animate_update_stale(frame) ==
    LET d1 == scene_update(drawn, values, scene_children)
        v1 == evaluate_system(values, scene_children, frame)
    IN [values |-> v1, drawn |-> d1, handed |-> ArtistStates(d1),
        steps |-> <<"update", "evaluate_system", "artists">>]

\* the callback update(frame) of Scene3D.animate; get_args(frame) is frame
animate_update(frame) ==
    LET v1 == evaluate_system(values, scene_children, frame)
        d1 == scene_update(drawn, v1, scene_children)
    IN [values |-> v1, drawn |-> d1, handed |-> ArtistStates(d1),
        steps |-> <<"evaluate_system", "update", "artists">>]

\* one timer tick: the FuncAnimation invokes the callback with the next frame
Tick ==
    /\ anim.kind # "none"
    /\ anim.pos < Len(anim.frames)
    /\ LET frame == anim.frames[anim.pos + 1]
           r == animate_update(frame)
       IN /\ values' = r.values
          /\ drawn' = r.drawn
          /\ handed' = r.handed
          /\ steps' = r.steps
          /\ calls' = Append(calls, frame)
          /\ last' = Call("tick", frame, "", FALSE, {}, NoError)
    /\ anim' = [anim EXCEPT !.pos = @ + 1]
    /\ UNCHANGED <<count, children, inertial_frame, zero_point, visible, exprs,
                   artists, sceneVars, on_axes, limits>>

(***************************************************************************)
(* Scene3D.auto_zoom.  The artist of object a spans ArtistMin(a) to        *)
(* ArtistMax(a).  Limits are kept in twentieths and the scale in tenths,   *)
(* which makes  _min - extra  and  _max + extra  integers.                 *)
(***************************************************************************)
DefaultScale == 11
Scales == {DefaultScale, 20}

ArtistMin(a) == <<0, 0 - a, a>>
ArtistMax(a) == <<a, a, 2 * a>>

Least(S) == CHOOSE x \in S : \A y \in S : x <= y
Greatest(S) == CHOOSE x \in S : \A y \in S : x >= y

\* faulty variant: the test for no artists is missing, np.min([]) raises
auto_zoom_unguarded(lim, arts, scale) ==
    IF arts = <<>> \/ NoArtist \in Range(arts)
    THEN [limits |-> lim,
          err |-> IF arts = <<>> THEN "ValueError" ELSE "AttributeError"]
    ELSE LET lo(i) == Least({ArtistMin(a)[i] : a \in Range(arts)})
             hi(i) == Greatest({ArtistMax(a)[i] : a \in Range(arts)})
             size == scale * Greatest({hi(i) - lo(i) : i \in 1..3})
             extra(i) == size - 10 * (hi(i) - lo(i))
         IN [limits |-> [i \in 1..3 |-> [lo |-> 20 * lo(i) - extra(i),
                                         hi |-> 20 * hi(i) + extra(i)]],
             err |-> NoError]

\* Scene3D.auto_zoom(scale) on the artists arts
auto_zoom(lim, arts, scale) ==
    IF arts = <<>> THEN [limits |-> lim, err |-> NoError]
    ELSE IF NoArtist \in Range(arts) THEN [limits |-> lim, err |-> "AttributeError"]
    ELSE LET lo(i) == Least({ArtistMin(a)[i] : a \in Range(arts)})
             hi(i) == Greatest({ArtistMax(a)[i] : a \in Range(arts)})
             size == scale * Greatest({hi(i) - lo(i) : i \in 1..3})
             extra(i) == size - 10 * (hi(i) - lo(i))
         IN [limits |-> [i \in 1..3 |-> [lo |-> 20 * lo(i) - extra(i),
                                         hi |-> 20 * hi(i) + extra(i)]],
             err |-> NoError]

\* Scene3D.plot(prettify): update(), plot(ax) of every child, then, when
\* prettifying, auto_zoom()
Plot(prettify) ==
    /\ LET d1 == scene_update(drawn, values, scene_children)
           z == IF prettify THEN auto_zoom(limits, scene_artists, DefaultScale)
                ELSE [limits |-> limits, err |-> NoError]
       IN /\ drawn' = d1
          /\ on_axes' = plot_children(on_axes, d1, scene_children)
          /\ steps' = <<"update">> \o [i \in 1..Len(scene_children) |-> "plot"]
          /\ limits' = z.limits
          /\ last' = Call("plot", 0, "", prettify, {}, z.err)
    /\ UNCHANGED <<treeVars, sceneVars, animVars, handed>>

(***************************************************************************)
(* Evaluation, update and plotting of a scene, driven by the animation.    *)
(***************************************************************************)
\* The scene is built before it is animated: the evaluator is compiled for
\* the tree it is given.
NextTick ==
    \/ anim.kind = "none" /\ AddPlotObject("artist")
    \/ \E n \in Nodes : anim.kind = "none" /\ AddChild(n, MaxOwn, "artist")
    \/ \E x \in Params : Evalf(InertialNode, x)
    \/ AnimateInt(MaxFrames)
    \/ Tick
    \/ \E prettify \in BOOLEAN : Plot(prettify)

SpecTick == Init /\ [][NextTick]_vars

NextAnim ==
    \/ \E frames \in 0..MaxFrames : AnimateInt(frames)
    \/ \E frames \in SeqsUpTo(FrameValues, MaxFrames) : AnimateIterable(frames)
    \/ Tick

SpecAnim == Init /\ [][NextAnim]_vars


(***************************************************************************)
(* Auto zoom.  PlotBase.__init__ leaves _artists empty and the subclass of *)
(* the plot object decides what it holds, so the plot object of the        *)
(* inertial frame starts with any of the artist lists.                     *)
(***************************************************************************)
InitZoom == \E a \in ArtistKinds : InitScene(a)

\* Scene3D.auto_zoom(scale); last.node: the scale, in tenths
AutoZoom(scale) ==
    /\ LET r == auto_zoom(limits, scene_artists, scale)
       IN /\ limits' = r.limits
          /\ last' = Call("auto_zoom", scale, "", FALSE, {}, r.err)
    /\ UNCHANGED <<treeVars, sceneVars, animVars, drawn, on_axes, handed, steps>>

NextZoom ==
    \/ \E a \in ArtistKinds : AddPlotObject(a)
    \/ \E n \in Nodes, a \in ArtistKinds : AddChild(n, 0, a)
    \/ Clear
    \/ \E scale \in Scales : AutoZoom(scale)
    \/ Plot(TRUE)

SpecZoom == InitZoom /\ [][NextZoom]_vars

(***************************************************************************)
(* Properties                                                              *)
(***************************************************************************)

\* C1: after visible is assigned on an object, every descendant of it
\* (children, grandchildren and deeper) has that visible state.
C1_VisibleReachesAllDescendants ==
    last.op = "visible" =>
        \A d \in Subtree(last.node) : visible[d] = last.flag

\* C2: the values setter ends with an error whenever the shape of the
\* nested values differs from the shape of the collected expressions.
C2_ShapeMismatchFails ==
    (last.op = "values" /\ ~last.flag) => last.err # NoError

\* C3: on an object whose zero_point is assigned, assigning a different
\* Point raises; assigning the same Point returns and leaves the zero_point
\* of the object and of every descendant as it was.
C3_ZeroPointReassign ==
    [][\A n \in Nodes :
          (last'.op = "zero_point" /\ last'.node = n /\ zero_point[n] # Unset) =>
              /\ (last'.arg \in Points /\ last'.arg # zero_point[n]) =>
                     last'.err # NoError
              /\ last'.arg = zero_point[n] =>
                     /\ last'.err = NoError
                     /\ \A d \in Subtree(n) : zero_point'[d] = zero_point[d]]_vars

C3_Witness ==
    /\ last.op = "zero_point"
    /\ last.err = NoError
    /\ Depth2(last.node)

\* C4: the first child of the scene is always the plot object of the
\* inertial frame, and after clear(), whatever the number of added
\* top-level objects, it is the scene's only child.
C4_ClearKeepsInertialFrame ==
    /\ Len(scene_children) >= 1
    /\ scene_children[1] = InertialNode
    /\ last.op = "clear" => scene_children = <<InertialNode>>

C4_Witness ==
    /\ last.op = "clear"
    /\ last.node >= 2

\* C5: after nested values of the shape of get_expressions_to_evaluate()
\* have been assigned, the values property has that same nested shape, and
\* every object's own values are as many as its own expressions.
C5_RoundTripShape ==
    (last.op = "values" /\ last.flag) =>
        /\ Shape(values_get(values, last.node))
              = Shape(get_expressions_to_evaluate(last.node))
        /\ \A d \in Subtree(last.node) : Len(values[d]) = Len(exprs[d])

C5_Witness ==
    /\ last.op = "values"
    /\ last.flag
    /\ \E c \in Kids(last.node) : \E g \in Kids(c) : exprs[g] # <<>>

C7_ObjectAndMouseAccepted ==
    last.op = "annot_location" =>
        (last.err = NoError <=> last.arg \in {"object", "mouse"})

\* C7 (amended): annot_location is accepted for exactly "object"; any other
\* value, "mouse" included, raises at assignment and the stored location
\* stays what it was.
C7_OnlyObjectAccepted ==
    [][last'.op = "annot_location" =>
          /\ last'.err = NoError <=> last'.arg = "object"
          /\ last'.err # NoError => annot_location' = annot_location
          /\ last'.err = NoError => annot_location' = last'.arg]_vars

C7_Witness ==
    /\ last.op = "annot_location"
    /\ last.arg = "mouse"
    /\ last.err = "NotImplementedError"
    /\ annot_location = "object"

\* C8 as stated: after clear() the plot object of the inertial frame is
\* still visible, the other top-level objects are not.
C8_InertialFrameStaysVisible ==
    last.op = "clear" =>
        /\ visible[InertialNode]
        /\ \A n \in last.hit \ {InertialNode} : ~visible[n]

\* C8 (amended): clear() hides every top-level object, the plot object of
\* the inertial frame included.
C8_ClearHidesEveryTopLevelObject ==
    last.op = "clear" => \A n \in last.hit : ~visible[n]

C8_Witness ==
    /\ last.op = "clear"
    /\ last.node >= 1
    /\ InertialNode \in last.hit
    /\ ~visible[InertialNode]

\* the top-level objects, by position, that contain the event
Containing(hit) ==
    {i \in 1..Len(scene_children) : contains(scene_children[i], hit)}

FirstContaining(hit) ==
    scene_children[CHOOSE i \in Containing(hit) : \A j \in Containing(hit) : i <= j]

\* C9 as stated: after every pointer-move event the annotation shows the
\* first object containing the event, and is hidden when no object does.
C9_EveryEventDecidesAnnotation ==
    last.op = "hover" =>
        IF Containing(last.hit) # {}
        THEN annot_visible /\ annot_text = FirstContaining(last.hit)
        ELSE ~annot_visible

\* C9 (amended): a pointer-move event inside the scene's axes shows the
\* annotation of the first top-level object containing it, and hides the
\* annotation when no object does; an event outside the axes leaves the
\* annotation as it was.
C9_EventInAxesDecidesAnnotation ==
    [][last'.op = "hover" =>
          IF last'.flag
          THEN IF Containing(last'.hit) # {}
               THEN annot_visible' /\ annot_text' = FirstContaining(last'.hit)
               ELSE ~annot_visible'
          ELSE annot_visible' = annot_visible /\ annot_text' = annot_text]_vars

C9_Witness ==
    /\ last.op = "hover"
    /\ last.flag
    /\ Cardinality(Containing(last.hit)) >= 2
    /\ annot_visible
    /\ annot_text = FirstContaining(last.hit)

C11_EvaluateThenUpdateThenArtists ==
    /\ last.op = "tick" =>
          /\ steps = <<"evaluate_system", "update", "artists">>
          /\ \A n \in SceneNodes :
                /\ values[n] = EvalOwn(n, last.node)
                /\ drawn[n] = values[n]
          /\ Len(handed) = Len(scene_artists)
          /\ \A i \in 1..Len(handed) :
                /\ handed[i][1] = scene_artists[i]
                /\ handed[i][1] # NoArtist => handed[i][2] = values[handed[i][1]]
    /\ last.op = "plot" =>
          /\ Len(steps) = 1 + Len(scene_children)
          /\ steps[1] = "update"
          /\ \A i \in 2..Len(steps) : steps[i] = "plot"
          /\ \A n \in SceneNodes :
                /\ drawn[n] = values[n]
                /\ on_axes[n] = [attached |-> TRUE, data |-> values[n]]

C11_Witness ==
    /\ last.op = "tick"
    /\ Len(calls) >= 2
    /\ on_axes[InertialNode].attached
    /\ \E n \in SceneNodes \ {InertialNode} : drawn[n] # <<>>

\* C12: auto_zoom called while the scene has no artists returns without an
\* error and leaves the x, y and z limits of the axes as they were.
C12_AutoZoomWithoutArtists ==
    [][(last'.op = "auto_zoom" /\ scene_artists = <<>>) =>
          /\ last'.err = NoError
          /\ limits' = limits]_vars

C12_Witness ==
    /\ last.op = "auto_zoom"
    /\ last.err = NoError
    /\ scene_artists = <<>>
    /\ limits # DefaultLimits

====
